---- MODULE Spec2Model ----
(***************************************************************************)
(* A model of the M1 optimizer (src/ollama-api.py) and of the performance  *)
(* analyzer (src/m1_performance_compare.py).                               *)
(*                                                                         *)
(* Texts are sequences of one-character strings; "LF" and "CR" stand for   *)
(* the line feed and the carriage return.  A file is a record              *)
(* [exists, data]: data is the file's stored characters.  A path is a      *)
(* text too.  A value that is False or a text is a record [ok, text].      *)
(***************************************************************************)
EXTENDS Integers, Sequences, FiniteSets, TLC

VARIABLES
    disk,                   \* [fs, mtime, clock]: the files, their modification
                            \* times and the time of the last write
    ORIGINAL_FILE,          \* m1_performance_compare.py:15 (<<>> is None)
    OPTIMIZED_FILE,         \* m1_performance_compare.py:16 (<<>> is None)
    pc,                     \* position of the analyzer's main / measure_performance
    optimized_content,      \* measure_performance's local (line 115)
    original_frame_times,   \* measure_performance's local (line 111)
    optimized_frame_times,  \* measure_performance's local (line 112)
    mpResult,               \* what measure_performance returned
    changes,                \* what compare_code_changes returned
    optCall,                \* the last optimize_file_for_m1 call and its outcome
    hist,                   \* history of the run, read by the properties only
    raw_result,             \* identify_critical_file: the response text
    critical_file,          \* identify_critical_file: the returned path
    report                  \* what the analyzer's main has written and printed

vars == <<disk, ORIGINAL_FILE, OPTIMIZED_FILE, pc, optimized_content,
          original_frame_times, optimized_frame_times, mpResult, changes, optCall,
          hist, raw_result, critical_file, report>>

(***************************************************************************)
(* Bounds of the model.                                                    *)
(***************************************************************************)
MaxReasonLen == 3

MaxInitTime == 2

MaxOptimize == 2

MaxBenchRuns == 1

(***************************************************************************)
(* Characters.                                                             *)
(***************************************************************************)
Letters == {"a", "b", "c", "d", "e", "f", "g", "h", "i", "j", "k", "l", "m",
            "n", "o", "p", "q", "r", "s", "t", "u", "v", "w", "x", "y", "z"}

Uppers == {"F", "J", "R"}

\* the class [a-zA-Z0-9]
Alnum == Letters \cup Uppers

\* \w of the regular expressions
WordChars == Alnum \cup {"_"}

\* what str.strip() removes
Whitespace == {" ", "LF", "CR"}

\* the class [a-zA-Z0-9_/.-]
PathChars == Alnum \cup {"_", "/", ".", "-"}

\* the argument of strip('"\'.,;: ')
TrimChars == {"QUOTE", "'", ".", ",", ";", ":", " "}

Max(S) == CHOOSE x \in S : \A y \in S : y <= x

Min(S) == CHOOSE x \in S : \A y \in S : x <= y

\* all sequences over S of length at most n
SeqsUpTo(S, n) == UNION {[1..k -> S] : k \in 0..n}

(***************************************************************************)
(* Python string operations.                                               *)
(***************************************************************************)
\* s.strip(chars): the longest slice without leading and trailing chars
StripSet(s, chars) ==
    LET keep == {i \in 1..Len(s) : s[i] \notin chars}
    IN  IF keep = {} THEN <<>> ELSE SubSeq(s, Min(keep), Max(keep))

Strip(s) == StripSet(s, Whitespace)

\* the position of the k-th line feed of s; 0 for k = 0 and Len(s) + 1 when
\* s has fewer line feeds
NthLF(s, k) ==
    LET lfs == {i \in 1..Len(s) : s[i] = "LF"}
    IN  IF k = 0 THEN 0
        ELSE IF k > Cardinality(lfs) THEN Len(s) + 1
        ELSE CHOOSE i \in lfs : Cardinality({j \in lfs : j <= i}) = k

\* s.split('\n'): the pieces between line feeds, at least one piece
SplitLF(s) ==
    [k \in 1..(Cardinality({i \in 1..Len(s) : s[i] = "LF"}) + 1) |->
        SubSeq(s, NthLF(s, k - 1) + 1, NthLF(s, k) - 1)]

\* '\n'.join(lines)
RECURSIVE JoinLF(_)
JoinLF(lines) ==
    IF Len(lines) = 0 THEN <<>>
    ELSE IF Len(lines) = 1 THEN lines[1]
    ELSE lines[1] \o <<"LF">> \o JoinLF(Tail(lines))

(***************************************************************************)
(* identify_critical_file: the cleaning of the response (lines 159-197).   *)
(***************************************************************************)
\* lines 72-78: the fallback list
RENDERING_FILES ==
    << <<"r", "e", "n", "d", "e", "r", "/", "f", "l", "u", "i", "d", ".", "w", "g", "s", "l">>,
       <<"r", "e", "n", "d", "e", "r", "/", "f", "l", "u", "i", "d", "R", "e", "n", "d", "e", "r", ".", "t", "s">>,
       <<"s", "r", "c", "/", "r", "e", "n", "d", "e", "r", "e", "r", "s", "/",
         "F", "l", "u", "i", "d", "R", "e", "n", "d", "e", "r", "e", "r", ".", "j", "s">>,
       <<"s", "r", "c", "/", "r", "e", "n", "d", "e", "r", "e", "r", "s", "/",
         "R", "e", "n", "d", "e", "r", "e", "r", ".", "j", "s">>,
       <<"s", "r", "c", "/", "s", "h", "a", "d", "e", "r", "s", "/",
         "r", "e", "n", "d", "e", "r", ".", "w", "g", "s", "l">> >>

\* the end of the match of <[^>]+> starting at i, 0 when there is none
TagEnd(s, i) ==
    LET closers == {j \in (i + 1)..Len(s) : s[j] = ">"}
    IN  IF s[i] # "<" \/ closers = {} \/ Min(closers) = i + 1 THEN 0
        ELSE Min(closers)

\* re.sub(r'<[^>]+>', '', s) from position i on
RECURSIVE SubTagsFrom(_, _)
SubTagsFrom(s, i) ==
    IF i > Len(s) THEN <<>>
    ELSE IF TagEnd(s, i) # 0 THEN SubTagsFrom(s, TagEnd(s, i) + 1)
    ELSE <<s[i]>> \o SubTagsFrom(s, i + 1)

RemoveTags(s) == SubTagsFrom(s, 1)

\* FirstLine taking the last non-empty line (lines[-1] for lines[0])
FirstLine_LastLine(clean) ==
    LET stripped == [k \in 1..Len(SplitLF(clean)) |-> Strip(SplitLF(clean)[k])]
        lines == SelectSeq(stripped, LAMBDA l : l # <<>>)
    IN  IF lines # <<>> THEN lines[Len(lines)] ELSE Strip(clean)

\* lines 164-168: the first non-empty stripped line, else the stripped text
FirstLine(clean) ==
    LET stripped == [k \in 1..Len(SplitLF(clean)) |-> Strip(SplitLF(clean)[k])]
        lines == SelectSeq(stripped, LAMBDA l : l # <<>>)
    IN  IF lines # <<>> THEN lines[1] ELSE Strip(clean)

\* line 171
TrimLine(first_line) == StripSet(Strip(first_line), TrimChars)

\* the last index of the run of characters of class cls that starts at i
RunEnd(s, i, cls) ==
    LET stops == {j \in i..Len(s) : s[j] \notin cls}
    IN  IF stops = {} THEN Len(s) ELSE Min(stops) - 1

\* the end of the match of [a-zA-Z0-9_/.-]+\.[a-zA-Z0-9]+ starting at i, 0
\* when there is none: the class is greedy, so the dot is the last one of
\* the run that an alphanumeric character follows
MatchEnd(s, i) ==
    LET k == RunEnd(s, i, PathChars)
        dots == {m \in (i + 1)..k :
                    s[m] = "." /\ m + 1 <= Len(s) /\ s[m + 1] \in Alnum}
    IN  IF dots = {} THEN 0 ELSE RunEnd(s, Max(dots) + 1, Alnum)

\* re.search: the leftmost match, <<>> when there is none
SearchPath(s) ==
    LET starts == {i \in 1..Len(s) : MatchEnd(s, i) # 0}
    IN  IF starts = {} THEN <<>>
        ELSE SubSeq(s, Min(starts), MatchEnd(s, Min(starts)))

\* lines 161-197
ExtractPath(raw) ==
    LET cleaned_result == TrimLine(FirstLine(RemoveTags(raw)))
        file_path_match == SearchPath(cleaned_result)
    IN  IF file_path_match # <<>> THEN file_path_match ELSE RENDERING_FILES[1]

(***************************************************************************)
(* The file system.                                                        *)
(***************************************************************************)
NoFile == [exists |-> FALSE, data |-> <<>>]

File(data) == [exists |-> TRUE, data |-> data]

\* a tracked path without and one with a parent directory
MainTs == <<"m", ".", "t", "s">>

RenderTs == <<"r", "/", "f", ".", "t", "s">>

TrackedPaths == {MainTs, RenderTs}

\* f"{file_path}.bak" (ollama-api.py:221)
BackupOf(file_path) == file_path \o <<".", "b", "a", "k">>

AllPaths == TrackedPaths \cup {BackupOf(p) : p \in TrackedPaths}

\* file.endswith('.bak') (m1_performance_compare.py:26)
EndsWithBak(path) ==
    Len(path) >= 4 /\ SubSeq(path, Len(path) - 3, Len(path)) = <<".", "b", "a", "k">>

\* backup_path[:-4] (m1_performance_compare.py:29)
DropLast4(path) == SubSeq(path, 1, Len(path) - 4)

\* os.path.dirname
Dirname(path) ==
    LET seps == {i \in 1..Len(path) : path[i] = "/"}
    IN  IF seps = {} THEN <<>> ELSE SubSeq(path, 1, Max(seps) - 1)

\* os.path.isfile / os.path.exists
IsFile(d, path) == path \in DOMAIN d.fs /\ d.fs[path].exists

\* f.read() of a file opened with open(path, 'r', encoding='utf-8'): the
\* default newline mode turns "\r\n" and a lone "\r" into "\n"
RECURSIVE TranslateFrom(_, _)
TranslateFrom(s, i) ==
    IF i > Len(s) THEN <<>>
    ELSE IF s[i] = "CR"
         THEN <<"LF">> \o TranslateFrom(s, IF i + 1 <= Len(s) /\ s[i + 1] = "LF"
                                           THEN i + 2 ELSE i + 1)
    ELSE <<s[i]>> \o TranslateFrom(s, i + 1)

ReadText(data) == TranslateFrom(data, 1)

\* open(path, 'w') followed by f.write(text): the file holds the text (the
\* line separator of the platform is "\n") and gets a new modification time
WriteFile(d, path, text) ==
    [fs    |-> [d.fs EXCEPT ![path] = File(text)],
     mtime |-> [d.mtime EXCEPT ![path] = d.clock + 1],
     clock |-> d.clock + 1]

\* shutil.copy2(src, dst): the stored characters and the modification time
CopyFile2(d, src, dst) ==
    [fs    |-> [d.fs EXCEPT ![dst] = d.fs[src]],
     mtime |-> [d.mtime EXCEPT ![dst] = d.mtime[src]],
     clock |-> d.clock]

\* a value that is False
False == [ok |-> FALSE, text |-> <<>>]

Str(text) == [ok |-> TRUE, text |-> text]

\* Python's truth value of a value that is False or a text
Truthy(v) == v.ok /\ v.text # <<>>

(***************************************************************************)
(* optimize_file_for_m1 (ollama-api.py:209-323).                           *)
(***************************************************************************)
\* a line that the pattern of line 305 matches: three backquotes ("BQ"),
\* then word characters only
IsFenceLine(line) ==
    /\ Len(line) >= 3
    /\ \A i \in 1..3 : line[i] = "BQ"
    /\ \A i \in 4..Len(line) : line[i] \in WordChars

\* lines 305-307: every fence line is emptied (re.sub with re.MULTILINE),
\* then strip()
CleanResponse(raw) ==
    LET lines == SplitLF(raw)
        kept == [k \in 1..Len(lines) |->
                    IF IsFenceLine(lines[k]) THEN <<>> ELSE lines[k]]
    IN  Strip(JoinLF(kept))

\* get_file_content (lines 32-44)
GetFileContent(d, file_path) ==
    IF IsFile(d, file_path) THEN ReadText(d.fs[file_path].data) ELSE <<>>

\* write_file_content (lines 46-53): os.makedirs('') raises FileNotFoundError,
\* and then nothing is written
WriteFileContent(d, file_path, content) ==
    IF Dirname(file_path) = <<>>
    THEN [raised |-> TRUE, disk |-> d]
    ELSE [raised |-> FALSE, disk |-> WriteFile(d, file_path, content)]

\* lines 220-226: the backup copy; a failed copy is only a warning
CaptureBackup(d, file_path, copy_ok) ==
    IF copy_ok THEN CopyFile2(d, file_path, BackupOf(file_path)) ELSE d

\* lines 292-323: what the call does with the response
ProcessResponse(d, file_path, http) ==
    IF http.status = 200
    THEN IF http.body = "undecodable" THEN [ret |-> "False", disk |-> d]
         ELSE IF http.body = "not_object" THEN [ret |-> "raised", disk |-> d]
         ELSE LET raw == IF http.body = "response" THEN http.response ELSE <<>>
                  w == WriteFileContent(d, file_path, CleanResponse(raw))
              IN  [ret |-> IF w.raised THEN "raised" ELSE "True", disk |-> w.disk]
    ELSE [ret |-> "False", disk |-> d]

\* the whole call: "True", "False" or "raised", and the disk it leaves
OptimizeFile(d, file_path, copy_ok, http) ==
    IF file_path = <<>> THEN [ret |-> "False", disk |-> d]
    ELSE IF ~IsFile(d, file_path) THEN [ret |-> "False", disk |-> d]
    ELSE LET d1 == CaptureBackup(d, file_path, copy_ok)
         IN  IF GetFileContent(d1, file_path) = <<>>
             THEN [ret |-> "False", disk |-> d1]
             ELSE ProcessResponse(d1, file_path, http)

\* the response texts of the generation service
RawResponses ==
    { <<"BQ", "BQ", "BQ", "t", "s", "LF", "b", "LF", "BQ", "BQ", "BQ", "LF">>,
      <<"BQ", "BQ", "BQ">>,
      <<"b", "CR", "LF", "c">> }

\* status code and body of the reply
Replies ==
    {[status |-> 500, body |-> "undecodable", response |-> <<>>]}
    \cup {[status |-> 200, body |-> b, response |-> <<>>] :
            b \in {"undecodable", "not_object", "no_response"}}
    \cup {[status |-> 200, body |-> "response", response |-> r] : r \in RawResponses}

FilePathArgs == TrackedPaths \cup {<<>>}

\* the path's file as the disk holds it (NoFile for no path)
FileAt(d, path) == IF path \in DOMAIN d.fs THEN d.fs[path] ELSE NoFile

optimize_file_for_m1(file_path, copy_ok, http) ==
    /\ pc = "idle"
    /\ hist.optimizes < MaxOptimize
    /\ LET r == OptimizeFile(disk, file_path, copy_ok, http)
           captured == IsFile(disk, file_path) /\ copy_ok
           written == FileAt(r.disk, file_path) # FileAt(disk, file_path)
                      \/ r.disk.clock # disk.clock
       IN  /\ disk' = r.disk
           /\ optCall' = [path |-> file_path, copy_ok |-> copy_ok, http |-> http,
                          ret |-> r.ret,
                          live_before |-> FileAt(disk, file_path),
                          live_after |-> FileAt(r.disk, file_path),
                          bak_after |-> FileAt(r.disk, BackupOf(file_path)),
                          changed |-> {q \in AllPaths : r.disk.fs[q] # disk.fs[q]}]
           /\ hist' = [hist EXCEPT
                 !.optimizes = @ + 1,
                 !.last_capture = IF captured THEN file_path ELSE @,
                 !.mutated = IF written THEN @ \cup {file_path} ELSE @,
                 !.prev_live = IF written
                               THEN [@ EXCEPT ![file_path] = disk.fs[file_path].data]
                               ELSE @]
    /\ UNCHANGED <<report, ORIGINAL_FILE, OPTIMIZED_FILE, pc, optimized_content,
                   original_frame_times, optimized_frame_times, mpResult, changes,
                   raw_result, critical_file>>

(***************************************************************************)
(* The performance analyzer (m1_performance_compare.py).                   *)
(***************************************************************************)
NUM_TEST_RUNS == 5

\* os.walk('.') lists the files of the top directory before those of its
\* subdirectories
WalkOrder == <<MainTs, BackupOf(MainTs), RenderTs, BackupOf(RenderTs)>>

\* BackupFiles without the test of line 30: every backup, in walk order
BackupFiles_NoLiveTest(d) ==
    SelectSeq(WalkOrder, LAMBDA b : IsFile(d, b) /\ EndsWithBak(b))

\* lines 23-31: the backups whose live file exists, in walk order
BackupFiles(d) ==
    SelectSeq(WalkOrder, LAMBDA b : /\ IsFile(d, b)
                                    /\ EndsWithBak(b)
                                    /\ IsFile(d, DropLast4(b)))

\* line 38: max(backup_files, key=mtime) is the first of the newest ones
NewestBackup(d) ==
    LET files == BackupFiles(d)
        best == {i \in 1..Len(files) :
                    \A j \in 1..Len(files) : d.mtime[files[j]] <= d.mtime[files[i]]}
    IN  files[Min(best)]

\* temporarily_restore_original (lines 46-67); fault names the step of it
\* that fails: a read, the opening for writing (nothing changes) or the
\* write itself (the opening has emptied the file)
TemporarilyRestoreOriginal(d, original, optimized, fault) ==
    IF original = <<>> \/ optimized = <<>> THEN [ret |-> False, disk |-> d]
    ELSE IF fault = "read_live" \/ ~IsFile(d, optimized) THEN [ret |-> False, disk |-> d]
    ELSE IF fault = "read_bak" \/ ~IsFile(d, original) THEN [ret |-> False, disk |-> d]
    ELSE IF fault = "open_write" THEN [ret |-> False, disk |-> d]
    ELSE IF fault = "write" THEN [ret |-> False, disk |-> WriteFile(d, optimized, <<>>)]
    ELSE [ret  |-> Str(ReadText(d.fs[optimized].data)),
          disk |-> WriteFile(d, optimized, ReadText(d.fs[original].data))]

\* restore_optimized (lines 69-80); f.write(False) raises after the opening
\* has emptied the file
RestoreOptimized(d, optimized, content, fault) ==
    IF optimized = <<>> THEN [ret |-> FALSE, disk |-> d]
    ELSE IF fault = "open_write" THEN [ret |-> FALSE, disk |-> d]
    ELSE IF fault = "write" \/ ~content.ok
         THEN [ret |-> FALSE, disk |-> WriteFile(d, optimized, <<>>)]
    ELSE [ret |-> TRUE, disk |-> WriteFile(d, optimized, content.text)]

ReadFaults == {"none", "read_live", "read_bak", "open_write", "write"}

WriteFaults == {"none", "open_write", "write"}

\* simulate_rendering_test (lines 82-102) without its random variation: the
\* frame time in milliseconds
SimulateRenderingTest(is_original) == IF is_original THEN 17 ELSE 13

NoResult == [returned |-> FALSE, original |-> <<>>, optimized |-> <<>>]

Returned(original, optimized) ==
    [returned |-> TRUE, original |-> original, optimized |-> optimized]

\* what compare_code_changes returns; kind is "unset" before the call,
\* "None" for a return without a dict
NoChanges == [kind |-> "unset", additions |-> 0, deletions |-> 0, changes |-> 0,
              m1_optimizations |-> <<>>]

\* the history after a write to the live file by the analyzer
NoteWrite(h, before, after, path) ==
    IF before.clock = after.clock THEN h
    ELSE [h EXCEPT !.mutated = @ \cup {path},
                   !.prev_live = [@ EXCEPT ![path] = before.fs[path].data]]

\* the history of a run of the analyzer that has not started
NoRun == [entry_live |-> <<>>, restores |-> 0, overwrote |-> FALSE,
          raised |-> FALSE, sampled_on |-> <<>>, bak_at_find |-> NoFile,
          restore_ok |-> FALSE,
          tro |-> [called |-> FALSE, ret |-> False,
                   live_before |-> <<>>, bak_before |-> <<>>,
                   live_after |-> <<>>, bak_after |-> <<>>]]

\* the analyzer's process ends: its globals and locals are gone
ProcessEnd ==
    /\ pc' = "idle"
    /\ ORIGINAL_FILE' = <<>>
    /\ OPTIMIZED_FILE' = <<>>
    /\ optimized_content' = False
    /\ original_frame_times' = <<>>
    /\ optimized_frame_times' = <<>>
    /\ mpResult' = NoResult
    /\ changes' = NoChanges
    /\ hist' = [hist EXCEPT !.bench_runs = @ + 1, !.run = NoRun]

\* main (line 292) starts in a new process
StartMain ==
    /\ pc = "idle"
    /\ hist.bench_runs < MaxBenchRuns
    /\ pc' = "find"
    /\ UNCHANGED <<report, disk, ORIGINAL_FILE, OPTIMIZED_FILE, optimized_content,
                   original_frame_times, optimized_frame_times, mpResult, changes,
                   optCall, hist, raw_result, critical_file>>

\* find_backup_and_optimized (lines 18-44) and main's lines 297-298
find_backup_and_optimized ==
    /\ pc = "find"
    /\ IF BackupFiles(disk) = <<>>
       THEN ProcessEnd
       ELSE /\ ORIGINAL_FILE' = NewestBackup(disk)
            /\ OPTIMIZED_FILE' = DropLast4(NewestBackup(disk))
            /\ pc' = "compare"
            /\ hist' = [hist EXCEPT !.run.bak_at_find = disk.fs[NewestBackup(disk)]]
            /\ UNCHANGED <<optimized_content, original_frame_times,
                           optimized_frame_times, mpResult, changes>>
    /\ UNCHANGED <<report, disk, optCall, raw_result, critical_file>>

(***************************************************************************)
(* compare_code_changes (lines 147-208): difflib.unified_diff of the lines *)
(* of the two files.  Positions are counted from 0 and ranges are          *)
(* half-open, as in difflib: a[i+1] of the model is a[i] of the code.      *)
(***************************************************************************)
\* f.readlines(): the lines of the text, each with its line feed
ReadLines(text) ==
    LET pieces == SplitLF(text)
        n == Len(pieces)
    IN  [k \in 1..(IF pieces[n] = <<>> THEN n - 1 ELSE n) |->
            IF k < n THEN Append(pieces[k], "LF") ELSE pieces[k]]

\* SequenceMatcher.find_longest_match without junk: the longest block
\* a[i:i+k] = b[j:j+k] within the ranges, the earliest in a and then in b of
\* the longest ones; <<alo, blo, 0>> when no line matches
find_longest_match(a, b, alo, ahi, blo, bhi) ==
    LET blocks == {m \in (alo..(ahi - 1)) \X (blo..(bhi - 1)) \X (1..(ahi - alo)) :
                      /\ m[1] + m[3] <= ahi
                      /\ m[2] + m[3] <= bhi
                      /\ \A d \in 0..(m[3] - 1) : a[m[1] + d + 1] = b[m[2] + d + 1]}
        better(m, n) == \/ m[3] > n[3]
                        \/ m[3] = n[3] /\ m[1] < n[1]
                        \/ m[3] = n[3] /\ m[1] = n[1] /\ m[2] <= n[2]
    IN  IF blocks = {} THEN <<alo, blo, 0>>
        ELSE CHOOSE m \in blocks : \A n \in blocks : better(m, n)

\* SequenceMatcher.get_matching_blocks before the merge: the longest match,
\* then the matches to its left and to its right, in order
RECURSIVE MatchingBlocksIn(_, _, _, _, _, _)
MatchingBlocksIn(a, b, alo, ahi, blo, bhi) ==
    LET x == find_longest_match(a, b, alo, ahi, blo, bhi)
    IN  IF x[3] = 0 THEN <<>>
        ELSE (IF alo < x[1] /\ blo < x[2]
              THEN MatchingBlocksIn(a, b, alo, x[1], blo, x[2]) ELSE <<>>)
             \o <<x>>
             \o (IF x[1] + x[3] < ahi /\ x[2] + x[3] < bhi
                 THEN MatchingBlocksIn(a, b, x[1] + x[3], ahi, x[2] + x[3], bhi)
                 ELSE <<>>)

\* adjacent blocks are merged into one
RECURSIVE MergeBlocks(_, _)
MergeBlocks(blocks, cur) ==
    IF blocks = <<>> THEN (IF cur[3] > 0 THEN <<cur>> ELSE <<>>)
    ELSE LET x == Head(blocks)
         IN  IF cur[1] + cur[3] = x[1] /\ cur[2] + cur[3] = x[2]
             THEN MergeBlocks(Tail(blocks), <<cur[1], cur[2], cur[3] + x[3]>>)
             ELSE (IF cur[3] > 0 THEN <<cur>> ELSE <<>>)
                  \o MergeBlocks(Tail(blocks), x)

\* SequenceMatcher.get_matching_blocks: the merged blocks and the sentinel
get_matching_blocks(a, b) ==
    MergeBlocks(MatchingBlocksIn(a, b, 0, Len(a), 0, Len(b)), <<0, 0, 0>>)
    \o << <<Len(a), Len(b), 0>> >>

Opcode(tag, i1, i2, j1, j2) == [tag |-> tag, i1 |-> i1, i2 |-> i2, j1 |-> j1, j2 |-> j2]

\* SequenceMatcher.get_opcodes from position (i, j) on
RECURSIVE OpcodesFrom(_, _, _)
OpcodesFrom(blocks, i, j) ==
    IF blocks = <<>> THEN <<>>
    ELSE LET x == Head(blocks)
             tag == IF i < x[1] /\ j < x[2] THEN "replace"
                    ELSE IF i < x[1] THEN "delete"
                    ELSE IF j < x[2] THEN "insert"
                    ELSE ""
         IN  (IF tag # "" THEN <<Opcode(tag, i, x[1], j, x[2])>> ELSE <<>>)
             \o (IF x[3] > 0
                 THEN <<Opcode("equal", x[1], x[1] + x[3], x[2], x[2] + x[3])>>
                 ELSE <<>>)
             \o OpcodesFrom(Tail(blocks), x[1] + x[3], x[2] + x[3])

get_opcodes(a, b) == OpcodesFrom(get_matching_blocks(a, b), 0, 0)

\* the number of context lines of unified_diff (its default n)
ContextLines == 3

\* SequenceMatcher.get_grouped_opcodes: the first and the last opcode are cut
\* to the context when they are equal runs
TrimEnds(codes0) ==
    LET n == ContextLines
        codes == IF codes0 = <<>> THEN <<Opcode("equal", 0, 1, 0, 1)>> ELSE codes0
        f == codes[1]
        codes1 == IF f.tag = "equal"
                  THEN [codes EXCEPT ![1] = Opcode("equal", Max({f.i1, f.i2 - n}), f.i2,
                                                   Max({f.j1, f.j2 - n}), f.j2)]
                  ELSE codes
        l == codes1[Len(codes1)]
    IN  IF l.tag = "equal"
        THEN [codes1 EXCEPT ![Len(codes1)] = Opcode("equal", l.i1, Min({l.i2, l.i1 + n}),
                                                    l.j1, Min({l.j2, l.j1 + n}))]
        ELSE codes1

\* the loop of get_grouped_opcodes: a long equal run ends a group
RECURSIVE GroupsFrom(_, _)
GroupsFrom(codes, group) ==
    LET n == ContextLines
        c == Head(codes)
    IN  IF codes = <<>>
        THEN (IF group # <<>> /\ ~(Len(group) = 1 /\ group[1].tag = "equal")
              THEN <<group>> ELSE <<>>)
        ELSE IF c.tag = "equal" /\ c.i2 - c.i1 > n + n
        THEN <<Append(group, Opcode("equal", c.i1, Min({c.i2, c.i1 + n}),
                                    c.j1, Min({c.j2, c.j1 + n})))>>
             \o GroupsFrom(Tail(codes),
                           <<Opcode("equal", Max({c.i1, c.i2 - n}), c.i2,
                                    Max({c.j1, c.j2 - n}), c.j2)>>)
        ELSE GroupsFrom(Tail(codes), Append(group, c))

get_grouped_opcodes(a, b) == GroupsFrom(TrimEnds(get_opcodes(a, b)), <<>>)

\* str(n) for a natural number
RECURSIVE Digits(_)
Digits(n) ==
    LET digit == <<"0", "1", "2", "3", "4", "5", "6", "7", "8", "9">>
    IN  IF n < 10 THEN <<digit[n + 1]>>
        ELSE Digits(n \div 10) \o <<digit[(n % 10) + 1]>>

\* difflib._format_range_unified
FormatRangeUnified(start, stop) ==
    IF stop - start = 1 THEN Digits(start + 1)
    ELSE Digits(IF stop = start THEN start ELSE start + 1)
         \o <<",">> \o Digits(stop - start)

\* every line of lines[i1:i2] with the tag before it
TaggedLines(tag, lines, i1, i2) == [k \in 1..(i2 - i1) |-> <<tag>> \o lines[i1 + k]]

RECURSIVE FlattenLines(_)
FlattenLines(seqs) ==
    IF seqs = <<>> THEN <<>> ELSE Head(seqs) \o FlattenLines(Tail(seqs))

\* the lines unified_diff yields for one group: the hunk header, then the
\* lines of every opcode
HunkLines(a, b, group) ==
    LET first == group[1]
        last == group[Len(group)]
        header == <<"@", "@", " ", "-">> \o FormatRangeUnified(first.i1, last.i2)
                  \o <<" ", "+">> \o FormatRangeUnified(first.j1, last.j2)
                  \o <<" ", "@", "@">>
        body == [k \in 1..Len(group) |->
                    IF group[k].tag = "equal"
                    THEN TaggedLines(" ", a, group[k].i1, group[k].i2)
                    ELSE (IF group[k].tag \in {"replace", "delete"}
                          THEN TaggedLines("-", a, group[k].i1, group[k].i2) ELSE <<>>)
                         \o (IF group[k].tag \in {"replace", "insert"}
                             THEN TaggedLines("+", b, group[k].j1, group[k].j2) ELSE <<>>)]
    IN  <<header>> \o FlattenLines(body)

\* fromfile='Original', tofile='M1 Optimized' (lines 164-165)
FromFileHeader == <<"-", "-", "-", " ", "O", "r", "i", "g", "i", "n", "a", "l">>

ToFileHeader == <<"+", "+", "+", " ", "M", "1", " ",
                  "O", "p", "t", "i", "m", "i", "z", "e", "d">>

\* difflib.unified_diff(a, b, fromfile, tofile, lineterm='') (lines 161-167)
unified_diff(a, b) ==
    LET groups == get_grouped_opcodes(a, b)
    IN  IF groups = <<>> THEN <<>>
        ELSE <<FromFileHeader, ToFileHeader>>
             \o FlattenLines([k \in 1..Len(groups) |-> HunkLines(a, b, groups[k])])

\* line.startswith(prefix)
StartsWith(line, prefix) ==
    Len(line) >= Len(prefix) /\ SubSeq(line, 1, Len(prefix)) = prefix

\* the marker of line 191
Marker == <<"M", "1", " ", "O", "P", "T", "I", "M", "I", "Z", "E", "D">>

\* "M1 OPTIMIZED" in line
HasMarker(line) ==
    \E i \in 1..Len(line) :
        i + Len(Marker) - 1 <= Len(line) /\ SubSeq(line, i, i + Len(Marker) - 1) = Marker

\* lines 160-204 for the two texts read
AnalyzeChanges(original_text, optimized_text) ==
    LET original_lines == ReadLines(original_text)
        optimized_lines == ReadLines(optimized_text)
        diff_text == JoinLF(unified_diff(original_lines, optimized_lines))
        pieces == SplitLF(diff_text)
        added == {k \in 1..Len(pieces) :
                    StartsWith(pieces[k], <<"+">>) /\ ~StartsWith(pieces[k], <<"+", "+", "+">>)}
        deleted == {k \in 1..Len(pieces) :
                      /\ k \notin added
                      /\ StartsWith(pieces[k], <<"-">>)
                      /\ ~StartsWith(pieces[k], <<"-", "-", "-">>)}
        chunks == {k \in 1..Len(pieces) :
                     /\ k \notin added
                     /\ k \notin deleted
                     /\ StartsWith(pieces[k], <<"@", "@">>)}
        notes == SelectSeq(optimized_lines, HasMarker)
    IN  [kind |-> "dict",
         additions |-> Cardinality(added),
         deletions |-> Cardinality(deleted),
         changes |-> Cardinality(chunks),
         m1_optimizations |-> [k \in 1..Len(notes) |-> Strip(notes[k])]]

\* the whole call (lines 147-208): None without the two paths and when a
\* file cannot be read
CompareCodeChanges(d, original, optimized, read_ok) ==
    IF original = <<>> \/ optimized = <<>> THEN [NoChanges EXCEPT !.kind = "None"]
    ELSE IF ~read_ok \/ ~IsFile(d, original) \/ ~IsFile(d, optimized)
    THEN [NoChanges EXCEPT !.kind = "None"]
    ELSE AnalyzeChanges(ReadText(d.fs[original].data), ReadText(d.fs[optimized].data))

\* compare_code_changes (lines 147-208): reads both files, writes none
compare_code_changes(read_ok) ==
    /\ pc = "compare"
    /\ changes' = CompareCodeChanges(disk, ORIGINAL_FILE, OPTIMIZED_FILE, read_ok)
    /\ pc' = "measure"
    /\ UNCHANGED <<report, disk, ORIGINAL_FILE, OPTIMIZED_FILE, optimized_content,
                   original_frame_times, optimized_frame_times, mpResult, optCall,
                   hist, raw_result, critical_file>>

\* measure_performance, lines 111-117
MeasureBegin(fault) ==
    /\ pc = "measure"
    /\ LET r == TemporarilyRestoreOriginal(disk, ORIGINAL_FILE, OPTIMIZED_FILE, fault)
           h == [hist EXCEPT
                    !.run.entry_live = FileAt(disk, OPTIMIZED_FILE).data,
                    !.run.overwrote = r.disk.clock # disk.clock /\ fault = "none",
                    !.run.tro = [called |-> TRUE, ret |-> r.ret,
                                 live_before |-> FileAt(disk, OPTIMIZED_FILE).data,
                                 bak_before |-> FileAt(disk, ORIGINAL_FILE).data,
                                 live_after |-> FileAt(r.disk, OPTIMIZED_FILE).data,
                                 bak_after |-> FileAt(r.disk, ORIGINAL_FILE).data]]
       IN  /\ disk' = r.disk
           /\ optimized_content' = r.ret
           /\ hist' = NoteWrite(h, disk, r.disk, OPTIMIZED_FILE)
           /\ IF ~Truthy(r.ret)
              THEN /\ mpResult' = Returned(<<>>, <<>>)
                   /\ pc' = "report"
              ELSE /\ mpResult' = mpResult
                   /\ pc' = "loop1"
    /\ original_frame_times' = <<>>
    /\ optimized_frame_times' = <<>>
    /\ UNCHANGED <<report, ORIGINAL_FILE, OPTIMIZED_FILE, changes, optCall,
                   raw_result, critical_file>>

\* ExceptHandler returning the samples taken so far
ExceptHandler_Partial(fault) ==
    LET r == RestoreOptimized(disk, OPTIMIZED_FILE, optimized_content, fault)
        h == [hist EXCEPT !.run.restores = @ + 1, !.run.raised = TRUE,
                          !.run.restore_ok = r.ret]
    IN  /\ disk' = r.disk
        /\ hist' = NoteWrite(h, disk, r.disk, OPTIMIZED_FILE)
        /\ mpResult' = Returned(original_frame_times, optimized_frame_times)
        /\ pc' = "report"

\* the handler of lines 142-145
ExceptHandler(fault) ==
    LET r == RestoreOptimized(disk, OPTIMIZED_FILE, optimized_content, fault)
        h == [hist EXCEPT !.run.restores = @ + 1, !.run.raised = TRUE,
                          !.run.restore_ok = r.ret]
    IN  /\ disk' = r.disk
        /\ hist' = NoteWrite(h, disk, r.disk, OPTIMIZED_FILE)
        /\ mpResult' = Returned(<<>>, <<>>)
        /\ pc' = "report"

\* lines 122-126: one sample of the original variant
SampleOriginal ==
    /\ pc = "loop1"
    /\ Len(original_frame_times) < NUM_TEST_RUNS
    /\ original_frame_times' = Append(original_frame_times, SimulateRenderingTest(TRUE))
    /\ hist' = [hist EXCEPT !.run.sampled_on = Append(@,
                    [is_original |-> TRUE, live |-> disk.fs[OPTIMIZED_FILE].data])]
    /\ UNCHANGED <<report, disk, ORIGINAL_FILE, OPTIMIZED_FILE, pc, optimized_content,
                   optimized_frame_times, mpResult, changes, optCall,
                   raw_result, critical_file>>

\* lines 122-126 raise, lines 142-145 handle it
SampleOriginalRaises(fault) ==
    /\ pc = "loop1"
    /\ Len(original_frame_times) < NUM_TEST_RUNS
    /\ ExceptHandler(fault)
    /\ UNCHANGED <<report, ORIGINAL_FILE, OPTIMIZED_FILE, optimized_content,
                   original_frame_times, optimized_frame_times, changes, optCall,
                   raw_result, critical_file>>

\* line 129
RestoreAfterOriginal(fault) ==
    /\ pc = "loop1"
    /\ Len(original_frame_times) = NUM_TEST_RUNS
    /\ LET r == RestoreOptimized(disk, OPTIMIZED_FILE, optimized_content, fault)
           h == [hist EXCEPT !.run.restores = @ + 1, !.run.restore_ok = r.ret]
       IN  /\ disk' = r.disk
           /\ hist' = NoteWrite(h, disk, r.disk, OPTIMIZED_FILE)
    /\ pc' = "loop2"
    /\ UNCHANGED <<report, ORIGINAL_FILE, OPTIMIZED_FILE, optimized_content,
                   original_frame_times, optimized_frame_times, mpResult, changes,
                   optCall, raw_result, critical_file>>

\* lines 133-137: one sample of the optimized variant
SampleOptimized ==
    /\ pc = "loop2"
    /\ Len(optimized_frame_times) < NUM_TEST_RUNS
    /\ optimized_frame_times' = Append(optimized_frame_times, SimulateRenderingTest(FALSE))
    /\ hist' = [hist EXCEPT !.run.sampled_on = Append(@,
                    [is_original |-> FALSE, live |-> disk.fs[OPTIMIZED_FILE].data])]
    /\ UNCHANGED <<report, disk, ORIGINAL_FILE, OPTIMIZED_FILE, pc, optimized_content,
                   original_frame_times, mpResult, changes, optCall,
                   raw_result, critical_file>>

\* lines 133-137 raise, lines 142-145 handle it
SampleOptimizedRaises(fault) ==
    /\ pc = "loop2"
    /\ Len(optimized_frame_times) < NUM_TEST_RUNS
    /\ ExceptHandler(fault)
    /\ UNCHANGED <<report, ORIGINAL_FILE, OPTIMIZED_FILE, optimized_content,
                   original_frame_times, optimized_frame_times, changes, optCall,
                   raw_result, critical_file>>

\* lines 139-140
MeasureReturn ==
    /\ pc = "loop2"
    /\ Len(optimized_frame_times) = NUM_TEST_RUNS
    /\ mpResult' = Returned(original_frame_times, optimized_frame_times)
    /\ pc' = "report"
    /\ UNCHANGED <<report, disk, ORIGINAL_FILE, OPTIMIZED_FILE, optimized_content,
                   original_frame_times, optimized_frame_times, changes, optCall,
                   hist, raw_result, critical_file>>

RECURSIVE SumSeq(_)
SumSeq(times) == IF times = <<>> THEN 0 ELSE Head(times) + SumSeq(Tail(times))

\* statistics.mean as the fraction num / den; the floating-point numbers of
\* the code are the exact fractions here
Mean(times) == [num |-> SumSeq(times), den |-> Len(times)]

\* 1000 / avg (lines 242-243, 318-319)
Fps(avg) == [num |-> 1000 * avg.den, den |-> avg.num]

\* (avg_original - avg_optimized) / avg_original * 100 (lines 219, 316), for
\* a positive avg_original
ImprovementPct(avg_original, avg_optimized) ==
    [num |-> 100 * (avg_original.num * avg_optimized.den
                    - avg_optimized.num * avg_original.den),
     den |-> avg_original.num * avg_optimized.den]

\* pct > k for a fraction with a positive den
GreaterThan(pct, k) == pct.num > k * pct.den

\* Verdict with >= for > at both thresholds
Verdict_Inclusive(improvement_pct) ==
    IF improvement_pct.num >= 15 * improvement_pct.den THEN "significant"
    ELSE IF improvement_pct.num >= 5 * improvement_pct.den THEN "moderate"
    ELSE "minor"

\* lines 326-331
Verdict(improvement_pct) ==
    IF GreaterThan(improvement_pct, 15) THEN "significant"
    ELSE IF GreaterThan(improvement_pct, 5) THEN "moderate"
    ELSE "minor"

NoResultsFile == [written |-> FALSE, original_runs |-> <<>>, optimized_runs |-> <<>>,
                  original_avg |-> Mean(<<>>), optimized_avg |-> Mean(<<>>),
                  original_fps |-> Mean(<<>>), optimized_fps |-> Mean(<<>>),
                  improvement_percentage |-> Mean(<<>>),
                  code_changes |-> NoChanges]

\* the outputs of main's lines 308-331: the image and the results file of
\* visualize_results, the error it reports, the summary and the verdict;
\* original and optimized are the sample sequences main had
NoReport == [called |-> FALSE, original |-> <<>>, optimized |-> <<>>,
             image |-> FALSE, results |-> NoResultsFile, error |-> "none",
             summary |-> FALSE, improvement |-> Mean(<<>>), verdict |-> "none"]

VisualizeFaults == {"none", "savefig", "dump"}

\* visualize_results (lines 210-290): nothing for an empty sequence; an
\* exception of savefig or of the writing of the results is caught and
\* reported (lines 289-290); changes is in the results when it is a dict
VisualizeResults(original_times, optimized_times, code_changes, fault) ==
    LET avg_original == Mean(original_times)
        avg_optimized == Mean(optimized_times)
    IN  IF original_times = <<>> \/ optimized_times = <<>> THEN NoReport
        ELSE IF fault = "savefig" THEN [NoReport EXCEPT !.error = "visualization"]
        ELSE IF fault = "dump"
        THEN [NoReport EXCEPT !.image = TRUE, !.error = "visualization"]
        ELSE [NoReport EXCEPT
                !.image = TRUE,
                !.results = [written |-> TRUE,
                             original_runs |-> original_times,
                             optimized_runs |-> optimized_times,
                             original_avg |-> avg_original,
                             optimized_avg |-> avg_optimized,
                             original_fps |-> Fps(avg_original),
                             optimized_fps |-> Fps(avg_optimized),
                             improvement_percentage |->
                                 ImprovementPct(avg_original, avg_optimized),
                             code_changes |-> IF code_changes.kind = "dict"
                                              THEN code_changes ELSE NoChanges]]

\* main, lines 308-331
ReportOf(original_times, optimized_times, code_changes, fault) ==
    LET v == VisualizeResults(original_times, optimized_times, code_changes, fault)
        improvement_pct == ImprovementPct(Mean(original_times), Mean(optimized_times))
    IN  IF original_times # <<>> /\ optimized_times # <<>>
        THEN [v EXCEPT !.called = TRUE,
                       !.original = original_times,
                       !.optimized = optimized_times,
                       !.summary = TRUE,
                       !.improvement = improvement_pct,
                       !.verdict = Verdict(improvement_pct)]
        ELSE [NoReport EXCEPT !.called = TRUE,
                              !.original = original_times,
                              !.optimized = optimized_times]

\* main, lines 308-331: the report, then the process ends
MainReport(fault) ==
    /\ pc = "report"
    /\ report' = ReportOf(mpResult.original, mpResult.optimized, changes, fault)
    /\ ProcessEnd
    /\ UNCHANGED <<disk, optCall, raw_result, critical_file>>

(***************************************************************************)
(* The specification of the two programs run one after the other on a      *)
(* project directory.                                                      *)
(***************************************************************************)
InitTexts == {<<"a">>}

NoCall == [path |-> <<>>, copy_ok |-> FALSE,
           http |-> [status |-> 500, body |-> "undecodable", response |-> <<>>],
           ret |-> "none", live_before |-> NoFile, live_after |-> NoFile,
           bak_after |-> NoFile, changed |-> {}]

InitHist == [optimizes |-> 0, bench_runs |-> 0, last_capture |-> <<>>,
             mutated |-> {}, prev_live |-> [p \in TrackedPaths |-> <<>>],
             run |-> NoRun]

\* a project directory before the first run: no backups yet, and no two
\* files written at the same time
InitDisks ==
    {[fs    |-> [p \in AllPaths |-> IF p \in DOMAIN live THEN File(live[p].text) ELSE NoFile],
      mtime |-> [p \in AllPaths |-> IF p \in DOMAIN live THEN live[p].time ELSE 0],
      clock |-> MaxInitTime] :
        live \in {l \in UNION {[S -> [text : InitTexts, time : 1..MaxInitTime]] :
                                  S \in SUBSET TrackedPaths} :
                     \A p, q \in DOMAIN l : p # q => l[p].time # l[q].time}}

InitRest ==
    /\ ORIGINAL_FILE = <<>>
    /\ OPTIMIZED_FILE = <<>>
    /\ optimized_content = False
    /\ original_frame_times = <<>>
    /\ optimized_frame_times = <<>>
    /\ mpResult = NoResult
    /\ changes = NoChanges
    /\ optCall = NoCall
    /\ hist = InitHist
    /\ report = NoReport
    /\ raw_result = <<>>
    /\ critical_file = <<>>

Init ==
    /\ disk \in InitDisks
    /\ pc = "idle"
    /\ InitRest

Next ==
    \/ \E file_path \in FilePathArgs, copy_ok \in BOOLEAN, http \in Replies :
          optimize_file_for_m1(file_path, copy_ok, http)
    \/ StartMain
    \/ find_backup_and_optimized
    \/ \E read_ok \in BOOLEAN : compare_code_changes(read_ok)
    \/ \E fault \in ReadFaults : MeasureBegin(fault)
    \/ SampleOriginal
    \/ \E fault \in WriteFaults : SampleOriginalRaises(fault)
    \/ \E fault \in WriteFaults : RestoreAfterOriginal(fault)
    \/ SampleOptimized
    \/ \E fault \in WriteFaults : SampleOptimizedRaises(fault)
    \/ MeasureReturn
    \/ \E fault \in VisualizeFaults : MainReport(fault)

Spec == Init /\ [][Next]_vars

(***************************************************************************)
(* The round trip of the backup store: the backup copy of                  *)
(* optimize_file_for_m1, then temporarily_restore_original, then           *)
(* restore_optimized with the value returned, with no input/output fault.  *)
(***************************************************************************)
MaxTextLen == 3

RoundTripTexts == SeqsUpTo({"a", "CR", "LF"}, MaxTextLen)

RoundTripDisk(path, text) ==
    [fs    |-> [p \in AllPaths |-> IF p = path THEN File(text) ELSE NoFile],
     mtime |-> [p \in AllPaths |-> IF p = path THEN 1 ELSE 0],
     clock |-> 1]

RoundTripInit ==
    /\ \E path \in TrackedPaths, text \in RoundTripTexts :
          /\ disk = RoundTripDisk(path, text)
          /\ optCall = [NoCall EXCEPT !.path = path, !.live_before = File(text)]
    /\ pc = "rt_capture"
    /\ ORIGINAL_FILE = <<>>
    /\ OPTIMIZED_FILE = <<>>
    /\ optimized_content = False
    /\ original_frame_times = <<>>
    /\ optimized_frame_times = <<>>
    /\ mpResult = NoResult
    /\ changes = NoChanges
    /\ hist = InitHist
    /\ report = NoReport
    /\ raw_result = <<>>
    /\ critical_file = <<>>

\* ollama-api.py:220-226
RoundTripCapture ==
    /\ pc = "rt_capture"
    /\ disk' = CaptureBackup(disk, optCall.path, TRUE)
    /\ pc' = "rt_find"
    /\ UNCHANGED <<report, ORIGINAL_FILE, OPTIMIZED_FILE, optimized_content,
                   original_frame_times, optimized_frame_times, mpResult, changes,
                   optCall, hist, raw_result, critical_file>>

\* m1_performance_compare.py:18-44
RoundTripFind ==
    /\ pc = "rt_find"
    /\ BackupFiles(disk) # <<>>
    /\ ORIGINAL_FILE' = NewestBackup(disk)
    /\ OPTIMIZED_FILE' = DropLast4(NewestBackup(disk))
    /\ pc' = "rt_restore"
    /\ UNCHANGED <<report, disk, optimized_content, original_frame_times,
                   optimized_frame_times, mpResult, changes, optCall, hist,
                   raw_result, critical_file>>

\* m1_performance_compare.py:46-67
RoundTripRestoreOriginal ==
    /\ pc = "rt_restore"
    /\ LET r == TemporarilyRestoreOriginal(disk, ORIGINAL_FILE, OPTIMIZED_FILE, "none")
       IN  /\ disk' = r.disk
           /\ optimized_content' = r.ret
    /\ pc' = "rt_reinstate"
    /\ UNCHANGED <<report, ORIGINAL_FILE, OPTIMIZED_FILE, original_frame_times,
                   optimized_frame_times, mpResult, changes, optCall, hist,
                   raw_result, critical_file>>

\* m1_performance_compare.py:69-80
RoundTripReinstate ==
    /\ pc = "rt_reinstate"
    /\ disk' = RestoreOptimized(disk, OPTIMIZED_FILE, optimized_content, "none").disk
    /\ pc' = "rt_done"
    /\ UNCHANGED <<report, ORIGINAL_FILE, OPTIMIZED_FILE, optimized_content,
                   original_frame_times, optimized_frame_times, mpResult, changes,
                   optCall, hist, raw_result, critical_file>>

RoundTripNext ==
    \/ RoundTripCapture
    \/ RoundTripFind
    \/ RoundTripRestoreOriginal
    \/ RoundTripReinstate

SpecRoundTrip == RoundTripInit /\ [][RoundTripNext]_vars

(***************************************************************************)
(* The extraction of identify_critical_file applied to response texts.     *)
(***************************************************************************)
FooBarTs == <<"f", "o", "o", "/", "b", "a", "r", ".", "t", "s">>

OpenTag == <<"<", "t", "h", "i", "n", "k", ">">>

CloseTag == <<"<", "/", "t", "h", "i", "n", "k", ">">>

\* the characters of the reasoning text
ReasonChars == {"x", ".", " ", "LF"}

\* a tag-wrapped reasoning span followed by the line foo/bar.ts
TaggedResponses ==
    {OpenTag \o reasoning \o CloseTag \o <<"LF">> \o FooBarTs :
        reasoning \in SeqsUpTo(ReasonChars, MaxReasonLen)}

ExtractInit ==
    /\ raw_result \in TaggedResponses
    /\ critical_file = <<>>
    /\ pc = "extract"
    /\ disk = RoundTripDisk(RenderTs, <<>>)
    /\ ORIGINAL_FILE = <<>>
    /\ OPTIMIZED_FILE = <<>>
    /\ optimized_content = False
    /\ original_frame_times = <<>>
    /\ optimized_frame_times = <<>>
    /\ mpResult = NoResult
    /\ changes = NoChanges
    /\ optCall = NoCall
    /\ hist = InitHist
    /\ report = NoReport

\* ollama-api.py:159-197
ExtractCriticalFile ==
    /\ pc = "extract"
    /\ critical_file' = ExtractPath(raw_result)
    /\ pc' = "extracted"
    /\ UNCHANGED <<report, disk, ORIGINAL_FILE, OPTIMIZED_FILE, optimized_content,
                   original_frame_times, optimized_frame_times, mpResult, changes,
                   optCall, hist, raw_result>>

ExtractNext == ExtractCriticalFile

SpecExtract == ExtractInit /\ [][ExtractNext]_vars

(***************************************************************************)
(* identify_critical_file (ollama-api.py:69-207) and the first step of the *)
(* optimizer's main (lines 325-341).                                       *)
(***************************************************************************)
MaxRawLen == 6

\* the characters of the response texts
RawChars == {"a", ".", "<", ">", "LF", " "}

RawTexts == SeqsUpTo(RawChars, MaxRawLen)

\* what encode_file (lines 23-30) returns: a base64 text, "" for no file
Encodings == {<<>>, <<"Y", "Q">>}

\* the replies to the request of line 141: a body that is no JSON, JSON
\* that is no object, an object without the key, an object whose response is
\* no string, and an object with a response string
IdentifyReplies ==
    {[status |-> 500, body |-> "undecodable", response |-> <<>>]}
    \cup {[status |-> 200, body |-> b, response |-> <<>>] :
            b \in {"undecodable", "not_object", "no_response", "not_string"}}
    \cup {[status |-> 200, body |-> "response", response |-> r] : r \in RawTexts}

\* lines 91-98: the first fallback file that exists, else the first one
FallbackFile(existing) ==
    LET found == {k \in 1..Len(RENDERING_FILES) : k \in existing}
    IN  IF found # {} THEN RENDERING_FILES[Min(found)] ELSE RENDERING_FILES[1]

\* lines 148-207: data.get of a value that is no object raises
\* AttributeError and re.sub of a value that is no string raises TypeError;
\* only json.JSONDecodeError is caught
ProcessIdentifyResponse(http) ==
    IF http.status = 200
    THEN IF http.body = "undecodable"
         THEN [ret |-> "returned", path |-> RENDERING_FILES[1], raw |-> <<>>]
         ELSE IF http.body \in {"not_object", "not_string"}
         THEN [ret |-> "raised", path |-> <<>>, raw |-> <<>>]
         ELSE LET raw == IF http.body = "response" THEN http.response ELSE <<>>
              IN  [ret |-> "returned", path |-> ExtractPath(raw), raw |-> raw]
    ELSE [ret |-> "returned", path |-> RENDERING_FILES[1], raw |-> <<>>]

IdentifyInit ==
    /\ pc = "identify"
    /\ raw_result = <<>>
    /\ critical_file = <<>>
    /\ disk = RoundTripDisk(RenderTs, <<"a">>)
    /\ ORIGINAL_FILE = <<>>
    /\ OPTIMIZED_FILE = <<>>
    /\ optimized_content = False
    /\ original_frame_times = <<>>
    /\ optimized_frame_times = <<>>
    /\ mpResult = NoResult
    /\ changes = NoChanges
    /\ optCall = NoCall
    /\ hist = InitHist
    /\ report = NoReport

\* lines 81-137: without a context file the call returns a fallback file,
\* with one it builds the request; existing is the set of the fallback files
\* that os.path.exists finds
IdentifyPrepare(compressed_content, uncompressed_content, existing) ==
    /\ pc = "identify"
    /\ IF compressed_content = <<>> /\ uncompressed_content = <<>>
       THEN /\ critical_file' = FallbackFile(existing)
            /\ optCall' = [optCall EXCEPT !.ret = "returned"]
            /\ pc' = "identified"
       ELSE /\ critical_file' = critical_file
            /\ optCall' = optCall
            /\ pc' = "post"
    /\ UNCHANGED <<report, disk, ORIGINAL_FILE, OPTIMIZED_FILE, optimized_content,
                   original_frame_times, optimized_frame_times, mpResult, changes,
                   hist, raw_result>>

\* line 141: the reply arrives; optCall keeps it
IdentifyPost(http) ==
    /\ pc = "post"
    /\ optCall' = [optCall EXCEPT !.http = http, !.ret = "replied"]
    /\ pc' = "reply"
    /\ UNCHANGED <<report, disk, ORIGINAL_FILE, OPTIMIZED_FILE, optimized_content,
                   original_frame_times, optimized_frame_times, mpResult, changes,
                   hist, raw_result, critical_file>>

\* lines 148-207
IdentifyProcess ==
    /\ pc = "reply"
    /\ LET r == ProcessIdentifyResponse(optCall.http)
       IN  /\ critical_file' = r.path
           /\ raw_result' = r.raw
           /\ optCall' = [optCall EXCEPT !.ret = r.ret]
           /\ pc' = IF r.ret = "raised" THEN "raised" ELSE "identified"
    /\ UNCHANGED <<report, disk, ORIGINAL_FILE, OPTIMIZED_FILE, optimized_content,
                   original_frame_times, optimized_frame_times, mpResult, changes,
                   hist>>

\* lines 333-337: sys.exit(1) when no path was returned
MainCheckCriticalFile ==
    /\ pc = "identified"
    /\ pc' = IF critical_file = <<>> THEN "exit" ELSE "step2"
    /\ UNCHANGED <<report, disk, ORIGINAL_FILE, OPTIMIZED_FILE, optimized_content,
                   original_frame_times, optimized_frame_times, mpResult, changes,
                   optCall, hist, raw_result, critical_file>>

IdentifyNext ==
    \/ /\ pc = "identify"
       /\ \E compressed_content, uncompressed_content \in Encodings,
             existing \in SUBSET (1..Len(RENDERING_FILES)) :
               IdentifyPrepare(compressed_content, uncompressed_content, existing)
    \/ /\ pc = "post"
       /\ \E http \in IdentifyReplies : IdentifyPost(http)
    \/ IdentifyProcess
    \/ MainCheckCriticalFile

SpecIdentify == IdentifyInit /\ [][IdentifyNext]_vars

(***************************************************************************)
(* compare_code_changes applied to a backup and a live file.               *)
(***************************************************************************)
MaxLines == 3

\* the lines of the two texts, without their line feed
AnalyzeLines == {<<"a">>, <<"+", "+">>, <<"-", "-">>, Marker}

\* a text of these lines, with or without a line feed at its end
TextOf(lines, final) == JoinLF(lines) \o (IF final THEN <<"LF">> ELSE <<>>)

AnalyzeTexts ==
    {TextOf(lines, final) : lines \in SeqsUpTo(AnalyzeLines, MaxLines), final \in BOOLEAN}

\* the state after find_backup_and_optimized has selected r/f.ts.bak
AnalyzeInit ==
    /\ \E original, optimized \in AnalyzeTexts :
          disk = [fs    |-> [p \in AllPaths |->
                                IF p = BackupOf(RenderTs) THEN File(original)
                                ELSE IF p = RenderTs THEN File(optimized)
                                ELSE NoFile],
                  mtime |-> [p \in AllPaths |-> IF p \in {RenderTs, BackupOf(RenderTs)}
                                                THEN 1 ELSE 0],
                  clock |-> 1]
    /\ ORIGINAL_FILE = BackupOf(RenderTs)
    /\ OPTIMIZED_FILE = RenderTs
    /\ pc = "compare"
    /\ optimized_content = False
    /\ original_frame_times = <<>>
    /\ optimized_frame_times = <<>>
    /\ mpResult = NoResult
    /\ changes = NoChanges
    /\ optCall = NoCall
    /\ hist = InitHist
    /\ report = NoReport
    /\ raw_result = <<>>
    /\ critical_file = <<>>

AnalyzeNext == \E read_ok \in BOOLEAN : compare_code_changes(read_ok)

SpecAnalyze == AnalyzeInit /\ [][AnalyzeNext]_vars

(***************************************************************************)
(* The report of main (lines 308-331) for the sample sequences of a        *)
(* measurement source.                                                     *)
(***************************************************************************)
MaxSamples == 2

\* frame times in milliseconds
SampleValues == {15, 17, 19, 20, 21}

SampleSeqs == SeqsUpTo(SampleValues, MaxSamples)

ReportInit ==
    /\ \E original_times, optimized_times \in SampleSeqs :
          mpResult = Returned(original_times, optimized_times)
    /\ changes \in {[NoChanges EXCEPT !.kind = "None"], [NoChanges EXCEPT !.kind = "dict"]}
    /\ pc = "report"
    /\ disk = RoundTripDisk(RenderTs, <<"a">>)
    /\ ORIGINAL_FILE = BackupOf(RenderTs)
    /\ OPTIMIZED_FILE = RenderTs
    /\ optimized_content = False
    /\ original_frame_times = <<>>
    /\ optimized_frame_times = <<>>
    /\ optCall = NoCall
    /\ hist = InitHist
    /\ report = NoReport
    /\ raw_result = <<>>
    /\ critical_file = <<>>

ReportNext == \E fault \in VisualizeFaults : MainReport(fault)

SpecReport == ReportInit /\ [][ReportNext]_vars

(***************************************************************************)
(* The analyzer with no pair selected: main on a directory where no backup *)
(* has its live file, and the functions of the module called while         *)
(* ORIGINAL_FILE and OPTIMIZED_FILE are still None (lines 15-16).          *)
(***************************************************************************)
UnsetTexts == {<<"a">>, <<"b">>}

\* no backup of the directory has its live file
NoLivePair(d) == \A p \in TrackedPaths : ~(IsFile(d, BackupOf(p)) /\ IsFile(d, p))

\* the directories: every path is absent or holds one of the texts
UnsetDisks ==
    {[fs    |-> fs,
      mtime |-> [p \in AllPaths |-> IF fs[p].exists THEN 1 ELSE 0],
      clock |-> 1] :
        fs \in [AllPaths -> {NoFile} \cup {File(t) : t \in UnsetTexts}]}

\* the values a caller passes to restore_optimized
RestoreArgs == {False} \cup {Str(t) : t \in UnsetTexts}

\* the functions a caller of the module can call before discovery
DirectCalls == {"compare", "measure", "restore_original", "restore_optimized"}

UnsetInit ==
    /\ \/ pc = "idle" /\ disk \in {d \in UnsetDisks : NoLivePair(d)}
       \/ pc \in DirectCalls /\ disk \in UnsetDisks
    /\ InitRest

\* temporarily_restore_original (lines 46-67) called by itself
temporarily_restore_original(fault) ==
    /\ pc = "restore_original"
    /\ LET r == TemporarilyRestoreOriginal(disk, ORIGINAL_FILE, OPTIMIZED_FILE, fault)
       IN  /\ disk' = r.disk
           /\ optimized_content' = r.ret
           /\ hist' = [hist EXCEPT
                 !.run.tro = [called |-> TRUE, ret |-> r.ret,
                              live_before |-> FileAt(disk, OPTIMIZED_FILE).data,
                              bak_before |-> FileAt(disk, ORIGINAL_FILE).data,
                              live_after |-> FileAt(r.disk, OPTIMIZED_FILE).data,
                              bak_after |-> FileAt(r.disk, ORIGINAL_FILE).data]]
    /\ pc' = "returned"
    /\ UNCHANGED <<report, ORIGINAL_FILE, OPTIMIZED_FILE, original_frame_times,
                   optimized_frame_times, mpResult, changes, optCall,
                   raw_result, critical_file>>

\* restore_optimized (lines 69-80) called by itself
restore_optimized(content, fault) ==
    /\ pc = "restore_optimized"
    /\ LET r == RestoreOptimized(disk, OPTIMIZED_FILE, content, fault)
       IN  /\ disk' = r.disk
           /\ hist' = [hist EXCEPT !.run.restores = @ + 1, !.run.restore_ok = r.ret]
    /\ optimized_content' = content
    /\ pc' = "returned"
    /\ UNCHANGED <<report, ORIGINAL_FILE, OPTIMIZED_FILE, original_frame_times,
                   optimized_frame_times, mpResult, changes, optCall,
                   raw_result, critical_file>>

UnsetNext ==
    \/ StartMain
    \/ find_backup_and_optimized
    \/ \E read_ok \in BOOLEAN : compare_code_changes(read_ok)
    \/ \E fault \in ReadFaults : MeasureBegin(fault)
    \/ \E fault \in ReadFaults : temporarily_restore_original(fault)
    \/ \E content \in RestoreArgs, fault \in WriteFaults : restore_optimized(content, fault)

SpecUnset == UnsetInit /\ [][UnsetNext]_vars

(***************************************************************************)
(* The properties.                                                         *)
(***************************************************************************)
\* the live file of the analyzer's run
LiveData == FileAt(disk, OPTIMIZED_FILE).data

\* C1: whenever measure_performance returns, the live file holds exactly the
\* content it held when measure_performance was called
C1_LiveRestoredOnReturn ==
    pc = "report" => LiveData = hist.run.entry_live

\* C2: when temporarily_restore_original has overwritten the live file,
\* restore_optimized is called exactly once before measure_performance returns
C2_RestoreExactlyOnce ==
    (pc = "report" /\ hist.run.overwrote) => hist.run.restores = 1

\* C3: when the measurement source raises, restore_optimized has been called,
\* the live file equals the content before the run and the result is two
\* empty sequences
C3_RaiseReinstatesAndDiscards ==
    (pc = "report" /\ hist.run.raised) =>
        /\ hist.run.restores >= 1
        /\ LiveData = hist.run.entry_live
        /\ mpResult = Returned(<<>>, <<>>)

\* C4: after the backup copy, temporarily_restore_original and
\* restore_optimized with the value returned, the live file and the backup
\* both hold the content the live file had before the copy
C4_RoundTrip ==
    pc = "rt_done" =>
        /\ disk.fs[optCall.path] = optCall.live_before
        /\ disk.fs[BackupOf(optCall.path)] = optCall.live_before

\* the call got no well-formed response: a missing file, a status other than
\* 200, an undecodable body, or a body without the response string
IllFormed(call) ==
    \/ ~call.live_before.exists
    \/ call.http.status # 200
    \/ call.http.body \in {"undecodable", "not_object", "no_response"}

\* C5: without a well-formed response optimize_file_for_m1 reports failure
\* (it returns False or raises) and leaves the live file as it was; for a
\* missing file no file changes
C5_IllFormedLeavesFile ==
    (optCall.ret # "none" /\ IllFormed(optCall)) =>
        /\ optCall.ret # "True"
        /\ optCall.live_after = optCall.live_before
        /\ ~optCall.live_before.exists => optCall.changed = {}

\* C6: for an existing file and a well-formed response optimize_file_for_m1
\* returns success, the live file holds the cleaned response and, unless the
\* copy failed, the backup holds the content the live file had before
C6_WellFormedRewrites ==
    (/\ optCall.ret # "none"
     /\ optCall.live_before.exists
     /\ optCall.http.status = 200
     /\ optCall.http.body = "response") =>
        /\ optCall.ret = "True"
        /\ optCall.live_after = File(CleanResponse(optCall.http.response))
        /\ optCall.copy_ok => optCall.bak_after = optCall.live_before

\* C7: between the operations, a backup that exists holds the content the
\* live file had immediately before its most recent in-place mutation
C7_BackupIsPreMutation ==
    pc = "idle" =>
        \A p \in TrackedPaths :
            (IsFile(disk, BackupOf(p)) /\ p \in hist.mutated) =>
                disk.fs[BackupOf(p)].data = hist.prev_live[p]

\* C8: the pair find_backup_and_optimized selects is the pair whose backup
\* the latest optimize_file_for_m1 call created
C8_NewestIsLatestCapture ==
    pc = "compare" =>
        /\ OPTIMIZED_FILE = hist.last_capture
        /\ ORIGINAL_FILE = BackupOf(hist.last_capture)

\* C9: a successful temporarily_restore_original writes the backup's content
\* over the live file, returns exactly the content the live file held and
\* leaves the backup as it was; the analyzer never changes the backup
C9_SwapAndBackupFrame ==
    /\ (hist.run.tro.called /\ hist.run.tro.ret.ok) =>
            /\ hist.run.tro.live_after = hist.run.tro.bak_before
            /\ hist.run.tro.ret.text = hist.run.tro.live_before
            /\ hist.run.tro.bak_after = hist.run.tro.bak_before
    /\ pc \in {"compare", "measure", "loop1", "loop2", "report"} =>
            disk.fs[ORIGINAL_FILE] = hist.run.bak_at_find

\* C10: for a tag-wrapped reasoning span followed by the line foo/bar.ts the
\* extraction returns exactly foo/bar.ts
C10_TaggedReasoningIgnored ==
    pc = "extracted" => critical_file = FooBarTs

(***************************************************************************)
(* The shapes the claims about identify_critical_file speak of, stated on  *)
(* the positions of a text.                                                *)
(***************************************************************************)
\* s[i..k] is one or more path-safe characters, a dot at j, one or more
\* alphanumeric characters
PathShapeAt(s, i, j, k) ==
    /\ i < j /\ j < k /\ k <= Len(s)
    /\ s[j] = "."
    /\ \A m \in i..(j - 1) : s[m] \in PathChars
    /\ \A m \in (j + 1)..k : s[m] \in Alnum

HasPathShape(s) == \E i, j, k \in 1..Len(s) : PathShapeAt(s, i, j, k)

ShapesFrom(s, i) ==
    {p \in (1..Len(s)) \X (1..Len(s)) : PathShapeAt(s, i, p[1], p[2])}

\* the leftmost match, the longest one with the last possible dot; <<>> when
\* there is none
LeftmostMatch(s) ==
    LET starts == {i \in 1..Len(s) : ShapesFrom(s, i) # {}}
        best == CHOOSE p \in ShapesFrom(s, Min(starts)) :
                    \A q \in ShapesFrom(s, Min(starts)) :
                        q[1] < p[1] \/ (q[1] = p[1] /\ q[2] <= p[2])
    IN  IF starts = {} THEN <<>> ELSE SubSeq(s, Min(starts), best[2])

MatchOrFallback(s) ==
    IF LeftmostMatch(s) # <<>> THEN LeftmostMatch(s) ELSE RENDERING_FILES[1]

\* the lines of s that hold a character other than white space, as pairs of
\* their first and last position
LineSpans(s) ==
    {p \in (1..Len(s)) \X (1..Len(s)) :
        /\ p[1] <= p[2]
        /\ \A m \in p[1]..p[2] : s[m] # "LF"
        /\ (p[1] = 1 \/ s[p[1] - 1] = "LF")
        /\ (p[2] = Len(s) \/ s[p[2] + 1] = "LF")
        /\ \E m \in p[1]..p[2] : s[m] \notin Whitespace}

FirstNonEmptyLine(s) ==
    LET first == CHOOSE p \in LineSpans(s) : \A q \in LineSpans(s) : p[1] <= q[1]
    IN  SubSeq(s, first[1], first[2])

\* the text after the first non-empty line
LaterLines(s) ==
    LET first == CHOOSE p \in LineSpans(s) : \A q \in LineSpans(s) : p[1] <= q[1]
    IN  SubSeq(s, first[2] + 1, Len(s))

\* identify_critical_file got a response text and returned
Answered ==
    /\ pc = "identified"
    /\ optCall.http.status = 200
    /\ optCall.http.body = "response"

\* the response text without its tags has several lines, one of them not empty
SeveralLines ==
    /\ \E i \in 1..Len(RemoveTags(raw_result)) : RemoveTags(raw_result)[i] = "LF"
    /\ LineSpans(RemoveTags(raw_result)) # {}

\* C11: for a response text without a path-shaped substring
\* identify_critical_file returns the first entry of the fallback list
C11_NoShapeGivesFallback ==
    (Answered /\ ~HasPathShape(raw_result)) => critical_file = RENDERING_FILES[1]

\* C12: identify_critical_file never raises and returns a non-empty path, and
\* main exits only when no path was returned
C12_AlwaysReturnsPath ==
    /\ pc \in {"identified", "raised", "exit", "step2"} =>
            (optCall.ret = "returned" /\ critical_file # <<>>)
    /\ pc = "exit" => critical_file = <<>>

\* C13 as claimed: when the response text without its tags has several
\* lines, the result is the leftmost path-shaped match of the first non-empty
\* line, or the first fallback entry when that line has none
C13_FirstLineLeftmostMatch ==
    (Answered /\ SeveralLines) =>
        critical_file = MatchOrFallback(FirstNonEmptyLine(RemoveTags(raw_result)))

\* C13 as amended: the match is sought in the first non-empty line after
\* white space and then the characters " ' . , ; : and the space have been
\* stripped from its ends; the later lines play no part
C13_FirstLineTrimmedMatch ==
    (Answered /\ SeveralLines) =>
        critical_file = MatchOrFallback(
            StripSet(StripSet(FirstNonEmptyLine(RemoveTags(raw_result)), Whitespace),
                     TrimChars))

\* C13: a later line holds a path-shaped text, the first non-empty line none,
\* and the fallback is returned
C13_Witness ==
    /\ Answered
    /\ SeveralLines
    /\ HasPathShape(LaterLines(RemoveTags(raw_result)))
    /\ ~HasPathShape(FirstNonEmptyLine(RemoveTags(raw_result)))
    /\ critical_file = RENDERING_FILES[1]

\* compare_code_changes has returned its dict
Analyzed == pc = "measure" /\ changes.kind = "dict"

\* text with one more line at its end
AppendLine(text, line) ==
    IF text = <<>> \/ text[Len(text)] = "LF" THEN text \o line
    ELSE text \o <<"LF">> \o line

\* C14: for a backup and a live file that hold the same text
\* compare_code_changes reports no addition, no deletion, no chunk and no
\* annotation
C14_SameTextNoChange ==
    (Analyzed /\ disk.fs[ORIGINAL_FILE].data = disk.fs[OPTIMIZED_FILE].data) =>
        /\ changes.additions = 0
        /\ changes.deletions = 0
        /\ changes.changes = 0
        /\ changes.m1_optimizations = <<>>

\* C15: when the live file holds the backup's text and one appended line with
\* the marker, compare_code_changes reports one addition and one annotation
C15_AppendedMarkerLine ==
    (/\ Analyzed
     /\ \E line \in AnalyzeLines, final \in BOOLEAN :
           /\ HasMarker(line)
           /\ disk.fs[OPTIMIZED_FILE].data =
                 AppendLine(disk.fs[ORIGINAL_FILE].data, line)
                 \o (IF final THEN <<"LF">> ELSE <<>>)) =>
        /\ changes.additions = 1
        /\ Len(changes.m1_optimizations) = 1

\* C16: with an empty sample sequence the report fails with an
\* insufficient-data error and nothing is produced: no image, no results
\* file, no verdict
C16_EmptySamplesFail ==
    (report.called /\ (report.original = <<>> \/ report.optimized = <<>>)) =>
        /\ report.error = "insufficient_data"
        /\ ~report.image
        /\ ~report.results.written
        /\ report.verdict = "none"

\* the sum of the original samples times the number of optimized ones, and
\* the other way round: the two means over a common denominator
OriginalWeight == SumSeq(report.original) * Len(report.optimized)

OptimizedWeight == SumSeq(report.optimized) * Len(report.original)

\* C17: with p = (mean_original - mean_optimized) / mean_original * 100 the
\* verdict is significant for p > 15, moderate for 5 < p <= 15 and minor for
\* p <= 5, regressions included; samples all 20 and all 15 give p = 25 and
\* significant
C17_VerdictBands ==
    (report.called /\ report.summary) =>
        LET gain == 100 * (OriginalWeight - OptimizedWeight)
        IN  /\ report.improvement.num * OriginalWeight
                  = gain * report.improvement.den
            /\ gain > 15 * OriginalWeight => report.verdict = "significant"
            /\ (5 * OriginalWeight < gain /\ gain <= 15 * OriginalWeight) =>
                   report.verdict = "moderate"
            /\ gain <= 5 * OriginalWeight => report.verdict = "minor"
            /\ ((\A k \in 1..Len(report.original) : report.original[k] = 20)
                /\ (\A k \in 1..Len(report.optimized) : report.optimized[k] = 15)) =>
                   /\ gain = 25 * OriginalWeight
                   /\ report.verdict = "significant"

\* C17: the samples are all 20 and all 15 and the verdict is significant
C17_Witness ==
    /\ report.called
    /\ report.summary
    /\ Len(report.original) = MaxSamples
    /\ \A k \in 1..Len(report.original) : report.original[k] = 20
    /\ \A k \in 1..Len(report.optimized) : report.optimized[k] = 15
    /\ report.improvement.num = 25 * report.improvement.den
    /\ report.verdict = "significant"

\* two sequences of NUM_TEST_RUNS samples each, or two empty ones
FullOrEmpty(original_times, optimized_times) ==
    \/ Len(original_times) = NUM_TEST_RUNS /\ Len(optimized_times) = NUM_TEST_RUNS
    \/ original_times = <<>> /\ optimized_times = <<>>

\* C18: what measure_performance returns, and what reaches visualize_results
\* and the summary, is two sequences of NUM_TEST_RUNS samples or two empty
\* sequences
C18_FullOrEmptySamples ==
    /\ mpResult.returned => FullOrEmpty(mpResult.original, mpResult.optimized)
    /\ report.called => FullOrEmpty(report.original, report.optimized)

\* C18: the measurement raised after samples had been taken, and two empty
\* sequences were returned
C18_Witness ==
    /\ pc = "report"
    /\ hist.run.raised
    /\ Len(hist.run.sampled_on) > NUM_TEST_RUNS
    /\ mpResult = Returned(<<>>, <<>>)

\* C19: when the backup copy fails, optimize_file_for_m1 still reads the
\* file and requests the rewrite, and on a well-formed response it rewrites
\* the file and returns success
C19_CopyFailureIsWarning ==
    (/\ optCall.ret \in {"True", "False", "raised"}
     /\ optCall.live_before.exists
     /\ ReadText(optCall.live_before.data) # <<>>
     /\ ~optCall.copy_ok
     /\ optCall.http.status = 200
     /\ optCall.http.body = "response") =>
        /\ optCall.ret = "True"
        /\ optCall.live_after = File(CleanResponse(optCall.http.response))

\* C20: every sample of the original variant is taken while the live file
\* holds the backup's text, and every sample of the optimized variant while
\* it holds again the text it held before the run
C20_SamplesOnRightContent ==
    \A k \in 1..Len(hist.run.sampled_on) :
        LET sample == hist.run.sampled_on[k]
        IN  /\ sample.is_original =>
                  ReadText(sample.live) = ReadText(hist.run.tro.bak_before)
            /\ ~sample.is_original =>
                  ReadText(sample.live) = ReadText(hist.run.entry_live)

\* the number of lines the unified diff of the two texts tags with "-"
\* (which = "original") or with "+" (which = "new"): the lines of its
\* replace, delete and insert opcodes
MarkedLines(original_text, optimized_text, which) ==
    LET groups == get_grouped_opcodes(ReadLines(original_text), ReadLines(optimized_text))
        codes == FlattenLines(groups)
        count == [k \in 1..Len(codes) |->
                    IF which = "new"
                    THEN (IF codes[k].tag \in {"replace", "insert"}
                          THEN codes[k].j2 - codes[k].j1 ELSE 0)
                    ELSE (IF codes[k].tag \in {"replace", "delete"}
                          THEN codes[k].i2 - codes[k].i1 ELSE 0)]
    IN  SumSeq(count)

\* C21: the additions count of compare_code_changes is the number of lines
\* the unified diff marks as present only in the new text and the deletions
\* count is the number it marks as present only in the original, whatever
\* the content lines begin with
C21_CountsAreMarkedLines ==
    Analyzed =>
        /\ changes.additions = MarkedLines(ReadText(disk.fs[ORIGINAL_FILE].data),
                                           ReadText(disk.fs[OPTIMIZED_FILE].data), "new")
        /\ changes.deletions = MarkedLines(ReadText(disk.fs[ORIGINAL_FILE].data),
                                           ReadText(disk.fs[OPTIMIZED_FILE].data), "original")

\* C22: the backup of a path is set once, on the first successful mutation:
\* an optimize_file_for_m1 call that fails creates or changes no backup, and
\* a call on a path that has a backup leaves the backup's content unchanged
C22_BackupSetOnce ==
    [][(hist'.optimizes = hist.optimizes + 1 /\ optCall'.path # <<>>) =>
          LET bak == BackupOf(optCall'.path)
          IN  /\ optCall'.ret # "True" => disk'.fs[bak] = disk.fs[bak]
              /\ disk.fs[bak].exists => disk'.fs[bak].data = disk.fs[bak].data]_vars

\* no pair is selected and, at discovery, no backup has its live file
NoPair ==
    /\ ORIGINAL_FILE = <<>>
    /\ OPTIMIZED_FILE = <<>>
    /\ pc = "find" => NoLivePair(disk)

\* C23: with no pair selected the benchmark phase changes no file:
\* temporarily_restore_original, restore_optimized and compare_code_changes
\* return False, False and None, measure_performance returns two empty
\* sequences without a sample, and main ends after discovery with no
\* measurement and no report
C23_NoPairChangesNothing ==
    [][NoPair =>
          /\ disk' = disk
          /\ report' = report
          /\ hist'.run.sampled_on = <<>>
          /\ pc = "find" => (pc' = "idle" /\ ~mpResult'.returned /\ changes'.kind = "unset")
          /\ pc = "compare" => changes'.kind = "None"
          /\ pc = "measure" => (/\ mpResult' = Returned(<<>>, <<>>)
                                /\ original_frame_times' = <<>>
                                /\ optimized_frame_times' = <<>>)
          /\ pc = "restore_original" => (hist'.run.tro.called /\ hist'.run.tro.ret = False)
          /\ pc = "restore_optimized" => (hist'.run.restores = 1 /\ ~hist'.run.restore_ok)]_vars

\* C23: measure_performance was called with no pair selected, on a
\* directory where a backup lies next to its live file, and has returned
C23_Witness ==
    /\ pc = "report"
    /\ ORIGINAL_FILE = <<>>
    /\ OPTIMIZED_FILE = <<>>
    /\ hist.run.tro.called
    /\ mpResult.returned
    /\ ~NoLivePair(disk)

====
